---- MODULE Spec2Model ----
(***************************************************************************)
(* Model of the device-connection and command-execution broker             *)
(* (src/device_manager.py) and of the three execute entry points of        *)
(* src/main.py.  One request is followed from the entry point through      *)
(* process_device_data and execute_commands; every blocking call on the    *)
(* automation backends (connect, send/execute, parse, disconnect) is one   *)
(* step whose outcome the environment chooses.                             *)
(*                                                                         *)
(* Text is modelled as a tuple of one-character strings so that lower(),   *)
(* substring containment and list membership are computed, not assumed.    *)
(* Python dicts are functions whose DOMAIN is the set of keys present.     *)
(***************************************************************************)
EXTENDS Integers, Sequences, FiniteSets, TLC

\* ------------------------------------------------------------------ bounds
MaxCmds == 2

\* ------------------------------------------------------------- text helpers
UpperLetters == <<"A","B","C","D","E","F","G","H","I","J","K","L","M",
                  "N","O","P","Q","R","S","T","U","V","W","X","Y","Z">>
LowerLetters == <<"a","b","c","d","e","f","g","h","i","j","k","l","m",
                  "n","o","p","q","r","s","t","u","v","w","x","y","z">>

UpperSet == { UpperLetters[k] : k \in 1..Len(UpperLetters) }
ToLower ==
    [c \in UpperSet |->
        LowerLetters[CHOOSE k \in 1..Len(UpperLetters) : UpperLetters[k] = c]]

\* str.lower() on one character
LowerChar(c) == IF c \in UpperSet THEN ToLower[c] ELSE c

\* str.lower()
lower(s) == [k \in 1..Len(s) |-> LowerChar(s[k])]

\* Python's  sub in s  on strings: sub occurs as a contiguous slice of s
StrIn(sub, s) ==
    \E k \in 0..(Len(s) - Len(sub)) :
        \A j \in 1..Len(sub) : s[k + j] = sub[j]

\* the literals of the source
S_huawei    == <<"h","u","a","w","e","i">>
S_vrp       == <<"v","r","p">>
S_vrpv8     == <<"v","r","p","v","8">>
S_junos     == <<"j","u","n","o","s">>
S_junos_evo == <<"j","u","n","o","s","-","e","v","o">>

\* ------------------------------------------------------------------ inputs
\* platform identifiers a request may carry (os_type)
Platforms ==
    { <<"i","o","s">>,
      <<"I","O","S">>,
      S_huawei,
      <<"H","u","a","w","e","i">>,
      S_vrp,
      <<"V","R","P">>,
      S_vrpv8,
      <<"V","R","P","V","8">>,
      <<"h","u","a","w","e","i","_","v","r","p","v","8">>,
      <<"c","e","-","v","r","p">>,
      S_junos,
      <<"J","u","n","O","S">>,
      S_junos_evo,
      <<"v","r">>,
      << >> }

Cmds == {"show version", "show bogus-command"}

\* inspection_commands: ordered batches of at most MaxCmds command objects
Batches == UNION { [1..n -> { [command |-> c] : c \in Cmds }] : n \in 0..MaxCmds }

BaseInfo(os) ==
    [os_type |-> os, ip_address |-> "10.0.0.1", username |-> "admin",
     password |-> "x", port |-> 22]

\* a dict d with key k set to v / with key k removed
DictSet(d, k, v) == [x \in DOMAIN d \cup {k} |-> IF x = k THEN v ELSE d[x]]
DictDel(d, k)    == [x \in DOMAIN d \ {k} |-> d[x]]

\* the one-field variations of a well-formed descriptor
Variations(d) ==
    { DictSet(d, "ip_address", ""),
      DictSet(d, "username", ""),
      DictSet(d, "password", ""),
      DictSet(d, "port", 0),
      DictSet(d, "port", 65535),
      DictSet(d, "port", 65536),
      DictDel(d, "port"),
      DictSet(d, "secret", ""),
      DictSet(d, "secret", "en") }

\* descriptors: a well-formed one for every platform identifier, every
\* variation of it for one identifier of each family, and one without os_type
DeviceInfos ==
    { BaseInfo(os) : os \in Platforms }
    \cup Variations(BaseInfo(<<"i","o","s">>))
    \cup Variations(BaseInfo(S_vrpv8))
    \cup { DictDel(BaseInfo(S_vrp), "os_type") }

\* request bodies: well-formed ones and ones with a top-level key missing
DeviceDatas ==
    { [device_info |-> d, inspection_commands |-> b] :
          d \in DeviceInfos, b \in Batches }
    \cup { [inspection_commands |-> b] : b \in Batches }
    \cup { [device_info |-> BaseInfo(os)] : os \in {S_vrp, S_junos} }

EntryPoints == {"cisco", "huawei", "juniper"}

\* --------------------------------------------------------------- exceptions
\* str(e) is a tuple of text tokens
KeyError(k) == [type |-> "KeyError", text |-> <<k>>]

HTTPException(code, det) ==
    [type |-> "HTTPException", status_code |-> code, detail |-> det]

StatusText(code) == IF code = 400 THEN "400: " ELSE "500: "

\* str(e): an HTTPException prints its status and detail, any other
\* exception prints its message
str(e) ==
    IF e.type = "HTTPException"
    THEN <<StatusText(e.status_code)>> \o e.detail
    ELSE e.text

NoResult == [kind |-> "none"]
Raised(e) == [kind |-> "raised", exc |-> e]
Returned(v) == [kind |-> "returned", value |-> v]

\* the underlying causes of a failed connect, and the library exception
\* each backend raises for it (netmiko for Huawei, unicon/pyATS for Generic)
Causes == {"timeout", "auth", "other"}
LibTexts == {"t1", "t2"}

LibExcType(family, cause) ==
    IF family = "huawei"
    THEN CASE cause = "timeout" -> "NetMikoTimeoutException"
           [] cause = "auth"    -> "NetMikoAuthenticationException"
           [] OTHER             -> "SSHException"
    ELSE CASE cause = "timeout" -> "TimeoutError"
           [] cause = "auth"    -> "CredentialsExhaustedError"
           [] OTHER             -> "ConnectionError"

LibExc(family, cause, t) == [type |-> LibExcType(family, cause), text |-> <<t>>]

\* outcomes of one send_command / execute call and of one parse call
Outputs == {"out1", "out2"}
SendOutcomes ==
    { [ok |-> TRUE, output |-> o] : o \in Outputs }
    \cup { [ok |-> FALSE, error |-> [type |-> "SubCommandFailure", text |-> <<"rejected">>]] }
ParseOutcomes ==
    { [ok |-> TRUE, parsed |-> "parsed"],
      [ok |-> FALSE, error |-> [type |-> "SchemaEmptyParserError", text |-> <<"no parser">>]] }

\* dict.get(k, default)
dict_get(d, k, default) == IF k \in DOMAIN d THEN d[k] ELSE default

\* ------------------------------------------------------- device_manager.py
\* create_testbed: the pyATS testbed entry of the single device
create_testbed(d) ==
    LET creds == [default |-> [username |-> d.username, password |-> d.password]]
        truthy == "secret" \in DOMAIN d /\ d.secret # ""
    IN  [name |-> d.ip_address,
         type |-> d.os_type, os |-> d.os_type, platform |-> d.os_type,
         cli |-> [protocol |-> "ssh", ip |-> d.ip_address,
                  port |-> dict_get(d, "port", 22),
                  username |-> d.username, password |-> d.password,
                  ssh_options |-> "legacy-kex-hostkey-ciphers"],
         credentials |-> IF truthy
                         THEN DictSet(creds, "enable", [password |-> d.secret])
                         ELSE creds]

\* connect_to_device: the arguments of device.connect
generic_connect_args(d) ==
    [testbed |-> create_testbed(d), learn_hostname |-> TRUE, log_stdout |-> TRUE]

\* variant: the failure is logged and swallowed, the caller gets None
connect_to_device_swallow(d, e) == Returned("None")

\* connect_to_device: every exception becomes the same HTTPException
connect_to_device_except(d, e) ==
    Raised(HTTPException(500, <<"Failed to connect to device: ">> \o str(e)))

\* variant: the vrp test comes first and shadows the vrpv8 test
huawei_device_type_vrp_first(d) ==
    LET os_type == lower(d.os_type)
    IN  IF StrIn(S_vrp, os_type) THEN "huawei"
        ELSE IF StrIn(S_vrpv8, os_type) THEN "huawei_vrpv8"
        ELSE "huawei"

\* connect_huawei_device: Netmiko device type from the platform identifier
huawei_device_type(d) ==
    LET os_type == lower(d.os_type)
    IN  IF StrIn(S_vrpv8, os_type) THEN "huawei_vrpv8"
        ELSE IF StrIn(S_vrp, os_type) THEN "huawei"
        ELSE "huawei"

\* connect_huawei_device: the Netmiko connection parameters
netmiko_params(d) ==
    [device_type |-> huawei_device_type(d),
     host |-> d.ip_address,
     username |-> d.username,
     password |-> d.password,
     port |-> dict_get(d, "port", 22),
     timeout |-> 30,
     session_log |-> <<"/tmp/", d.ip_address, "-netmiko.log">>]

\* connect_huawei_device: the three except clauses
connect_huawei_except(d, e) ==
    IF e.type = "NetMikoTimeoutException"
    THEN Raised(HTTPException(500, <<"Connection timed out to device ", d.ip_address>>))
    ELSE IF e.type = "NetMikoAuthenticationException"
    THEN Raised(HTTPException(500, <<"Authentication failed for device ", d.ip_address>>))
    ELSE Raised(HTTPException(500, <<"Failed to connect to Huawei device: ">> \o str(e)))

\* execute_commands: the family test on the platform identifier
HuaweiKeys == <<S_huawei, S_vrp, S_vrpv8>>

\* variant: only the first key is tested
is_huawei_first_key_only(d) == StrIn(HuaweiKeys[1], lower(d.os_type))

\* variant: the identifier is not lower-cased before the test
is_huawei_case_sensitive(d) ==
    \E k \in 1..Len(HuaweiKeys) : StrIn(HuaweiKeys[k], d.os_type)

is_huawei(d) ==
    \E k \in 1..Len(HuaweiKeys) : StrIn(HuaweiKeys[k], lower(d.os_type))

\* variant: an error entry is put in front of the list instead of at its end
huawei_iteration_error_first(rs, command, io) ==
    IF io.ok
    THEN [responses |-> Append(rs, [command |-> command, status |-> "success",
                                    output |-> io.output]),
          raised |-> FALSE]
    ELSE [responses |-> <<[command |-> command, status |-> "error",
                           error |-> str(io.error)]>> \o rs,
          raised |-> FALSE]

\* variant: no try/except around send_command, the exception leaves the loop
huawei_iteration_no_try(rs, command, io) ==
    IF io.ok
    THEN [responses |-> Append(rs, [command |-> command, status |-> "success",
                                    output |-> io.output]),
          raised |-> FALSE]
    ELSE [responses |-> rs, raised |-> TRUE]

\* execute_commands, Huawei loop body: try send_command / except Exception.
\* `raised` tells whether an exception leaves the loop body.
huawei_iteration(rs, command, io) ==
    IF io.ok
    THEN [responses |-> Append(rs, [command |-> command, status |-> "success",
                                    output |-> io.output]),
          raised |-> FALSE]
    ELSE [responses |-> Append(rs, [command |-> command, status |-> "error",
                                    error |-> str(io.error)]),
          raised |-> FALSE]

\* variant: the error entry also carries an (empty) output field
generic_execute_failed_with_output(rs, command, io) ==
    [responses |-> Append(rs, [command |-> command, status |-> "error",
                               output |-> "", error |-> str(io.error)]),
     raised |-> FALSE]

\* variant: no try/except around device.execute, the exception leaves the loop
generic_execute_failed_no_try(rs, command, io) ==
    [responses |-> rs, raised |-> TRUE]

\* execute_commands, Generic loop body when device.execute raises
generic_execute_failed(rs, command, io) ==
    [responses |-> Append(rs, [command |-> command, status |-> "error",
                               error |-> str(io.error)]),
     raised |-> FALSE]

\* variant: no inner try around device.parse, a parse failure reaches the
\* except clause of the command
generic_after_parse_no_inner_try(rs, command, output, pio) ==
    IF pio.ok
    THEN [responses |-> Append(rs, [command |-> command, status |-> "success",
                                    output |-> output,
                                    parsed_output |-> pio.parsed]),
          raised |-> FALSE]
    ELSE [responses |-> Append(rs, [command |-> command, status |-> "error",
                                    error |-> str(pio.error)]),
          raised |-> FALSE]

\* execute_commands, Generic loop body after device.execute returned `output`:
\* inner try device.parse / except Exception
generic_after_parse(rs, command, output, pio) ==
    IF pio.ok
    THEN [responses |-> Append(rs, [command |-> command, status |-> "success",
                                    output |-> output,
                                    parsed_output |-> pio.parsed]),
          raised |-> FALSE]
    ELSE [responses |-> Append(rs, [command |-> command, status |-> "success",
                                    output |-> output]),
          raised |-> FALSE]

\* execute_commands: the report returned
make_report(d, rs) == [device_info |-> d, command_responses |-> rs]

\* execute_commands: the outer except clause
execute_commands_except(e) ==
    HTTPException(500, <<"Error executing commands: ">> \o str(e))

\* process_device_data: the command texts of the request, in order
extract_commands(dd) ==
    [k \in 1..Len(dd.inspection_commands) |-> dd.inspection_commands[k].command]

\* process_device_data: the except clause
process_device_data_except(e) ==
    HTTPException(400, <<"Invalid device data format: ">> \o str(e))

\* ------------------------------------------------------------------ main.py
\* variant: the membership test is inverted
huawei_os_ok_inverted(d) == lower(d.os_type) \notin {S_huawei, S_vrp, S_vrpv8}

\* execute_huawei_commands / execute_juniper_commands: the platform check
huawei_os_ok(d)  == lower(d.os_type) \in {S_huawei, S_vrp, S_vrpv8}
juniper_os_ok(d) == lower(d.os_type) \in {S_junos, S_junos_evo}

huawei_os_error ==
    HTTPException(400, <<"Invalid OS type for Huawei device. Use 'huawei', 'vrp', or 'vrpv8'">>)
juniper_os_error ==
    HTTPException(400, <<"Invalid OS type for Juniper device. Use 'junos' or 'junos-evo'">>)

\* the except clause of each entry point
entry_except(ep, e) ==
    HTTPException(500,
        << CASE ep = "cisco"  -> "Error processing device data: "
             [] ep = "huawei" -> "Error processing Huawei device data: "
             [] OTHER         -> "Error processing Juniper device data: " >>
        \o str(e))

\* ------------------------------------------------------------- environment
\* a device can only answer on a non-empty address and a real TCP port
CanAnswer(d) ==
    /\ d.ip_address # ""
    /\ dict_get(d, "port", 22) \in 1..65535

VARIABLES
    entry,        \* the entry point that received the request
    device_data,  \* the request body
    pc,           \* position of the request
    device_info,  \* execute_commands' descriptor argument
    commands,     \* execute_commands' command list
    family,       \* backend execute_commands dispatched to
    profile,      \* connection parameters handed to the backend
    session,      \* state of the session handle `device`
    i,            \* position of the for loop in commands (1-based)
    output,       \* raw output of device.execute awaiting device.parse
    responses,    \* the list `responses`
    events,       \* backend calls made so far, in order
    io_log,       \* what the device answered to each command sent by the loop
    parse_log,    \* how each device.parse call ended, with the loop position
    cause,        \* underlying cause of a failed connect
    failure,      \* what went wrong in the request, if anything
    connResult,   \* outcome of connect_to_device / connect_huawei_device
    ecResult,     \* outcome of execute_commands
    pddResult,    \* outcome of process_device_data
    epResult,     \* outcome of the entry point
    peer,         \* a second request in flight through the same DeviceManager
    files         \* session-log files opened for writing, and by which request

request == <<entry, device_data, pc, device_info, commands, family, profile,
             session, i, output, responses, events, io_log, parse_log, cause,
             failure, connResult, ecResult, pddResult, epResult>>

vars == <<request, peer, files>>

inputs == <<entry, device_data>>
locals == <<family, profile, session, i, output, responses, events, io_log,
            parse_log, cause, connResult>>

\* no second request
PeerAbsent ==
    [pc |-> "absent", device_info |-> << >>, family |-> "none",
     session |-> "none", i |-> 0, responses |-> << >>, result |-> NoResult]

Init ==
    /\ entry \in EntryPoints
    /\ device_data \in DeviceDatas
    /\ pc = "entry"
    /\ device_info = << >>
    /\ commands = << >>
    /\ family = "none"
    /\ profile = << >>
    /\ session = "none"
    /\ i = 0
    /\ output = ""
    /\ responses = << >>
    /\ events = << >>
    /\ io_log = << >>
    /\ parse_log = << >>
    /\ cause = "none"
    /\ failure = "none"
    /\ connResult = NoResult
    /\ ecResult = NoResult
    /\ pddResult = NoResult
    /\ epResult = NoResult
    /\ peer = PeerAbsent
    /\ files = {}

\* ---------------------------------------------------- exception propagation
\* e raised in the body of the entry point: its except clause answers
RaiseInEntry(e) ==
    /\ epResult' = Raised(entry_except(entry, e))
    /\ pc' = "done"

\* e raised in the body of process_device_data
RaiseInPdd(e) ==
    /\ pddResult' = Raised(process_device_data_except(e))
    /\ RaiseInEntry(process_device_data_except(e))

\* e raised in the body of execute_commands
RaiseInExecute(e) ==
    /\ ecResult' = Raised(execute_commands_except(e))
    /\ RaiseInPdd(execute_commands_except(e))

\* execute_commands returns r; process_device_data and the entry point pass it on
ReturnReport(r) ==
    /\ ecResult' = Returned(r)
    /\ pddResult' = Returned(r)
    /\ epResult' = Returned(r)
    /\ pc' = "done"

\* ------------------------------------------------------------ entry points
\* process_device_data up to the call of execute_commands
ProcessDeviceData ==
    IF "device_info" \notin DOMAIN device_data
    THEN /\ RaiseInPdd(KeyError("device_info"))
         /\ failure' = "malformed"
         /\ UNCHANGED <<device_info, commands, ecResult>>
    ELSE IF "inspection_commands" \notin DOMAIN device_data
    THEN /\ RaiseInPdd(KeyError("inspection_commands"))
         /\ failure' = "malformed"
         /\ UNCHANGED <<device_info, commands, ecResult>>
    ELSE /\ device_info' = device_data.device_info
         /\ commands' = extract_commands(device_data)
         /\ pc' = "execute"
         /\ UNCHANGED <<failure, ecResult, pddResult, epResult>>

\* the platform check of a vendor entry point (os_ok: its outcome, looked at
\* only once device_info and os_type were found), then process_device_data
VendorEntry(os_ok, os_error) ==
    IF "device_info" \notin DOMAIN device_data
    THEN /\ RaiseInEntry(KeyError("device_info"))
         /\ failure' = "malformed"
         /\ UNCHANGED <<device_info, commands, ecResult, pddResult>>
    ELSE IF "os_type" \notin DOMAIN device_data.device_info
    THEN /\ RaiseInEntry(KeyError("os_type"))
         /\ failure' = "malformed"
         /\ UNCHANGED <<device_info, commands, ecResult, pddResult>>
    ELSE IF ~ os_ok
    THEN /\ RaiseInEntry(os_error)
         /\ failure' = "validation"
         /\ UNCHANGED <<device_info, commands, ecResult, pddResult>>
    ELSE ProcessDeviceData

execute_cisco_commands ==
    /\ pc = "entry" /\ entry = "cisco"
    /\ ProcessDeviceData
    /\ UNCHANGED <<inputs, peer, files, locals>>

execute_huawei_commands ==
    /\ pc = "entry" /\ entry = "huawei"
    /\ VendorEntry(huawei_os_ok(device_data.device_info), huawei_os_error)
    /\ UNCHANGED <<inputs, peer, files, locals>>

execute_juniper_commands ==
    /\ pc = "entry" /\ entry = "juniper"
    /\ VendorEntry(juniper_os_ok(device_data.device_info), juniper_os_error)
    /\ UNCHANGED <<inputs, peer, files, locals>>

\* ------------------------------------------------- execute_commands: connect
\* device_info['os_type'] is missing: KeyError in the family test
ClassifyKeyError ==
    /\ pc = "execute"
    /\ "os_type" \notin DOMAIN device_info
    /\ RaiseInExecute(KeyError("os_type"))
    /\ failure' = "malformed"
    /\ UNCHANGED <<inputs, peer, files, device_info, commands, locals>>

\* the connect function ended with r: the loop starts on what it returned,
\* or its exception reaches the outer except of execute_commands
ConnectEnds(r) ==
    /\ connResult' = r
    /\ IF r.kind = "raised"
       THEN /\ failure' = "connection"
            /\ RaiseInExecute(r.exc)
            /\ UNCHANGED <<i, responses>>
       ELSE /\ i' = 1
            /\ responses' = << >>
            /\ pc' = "loop"
            /\ UNCHANGED <<failure, ecResult, pddResult, epResult>>

ConnectHuawei ==
    /\ pc = "execute"
    /\ "os_type" \in DOMAIN device_info
    /\ is_huawei(device_info)
    /\ family' = "huawei"
    /\ profile' = netmiko_params(device_info)
    /\ events' = Append(events, [op |-> "connect_huawei_device"])
    /\ files' = files \cup {[path |-> netmiko_params(device_info).session_log,
                              by |-> "request"]}
    /\ \/ /\ CanAnswer(device_info)
          /\ session' = "open"
          /\ ConnectEnds(Returned("connection"))
          /\ UNCHANGED cause
       \/ \E c \in Causes, t \in LibTexts :
            /\ cause' = c
            /\ ConnectEnds(connect_huawei_except(device_info, LibExc("huawei", c, t)))
            /\ UNCHANGED session
    /\ UNCHANGED <<inputs, peer, device_info, commands, output, io_log, parse_log>>

ConnectGeneric ==
    /\ pc = "execute"
    /\ "os_type" \in DOMAIN device_info
    /\ ~ is_huawei(device_info)
    /\ family' = "generic"
    /\ profile' = generic_connect_args(device_info)
    /\ events' = Append(events, [op |-> "connect_to_device"])
    /\ \/ /\ CanAnswer(device_info)
          /\ session' = "open"
          /\ ConnectEnds(Returned("device"))
          /\ UNCHANGED cause
       \/ \E c \in Causes, t \in LibTexts :
            /\ cause' = c
            /\ ConnectEnds(connect_to_device_except(device_info, LibExc("generic", c, t)))
            /\ UNCHANGED session
    /\ UNCHANGED <<inputs, peer, files, device_info, commands, output, io_log, parse_log>>

\* ---------------------------------------------------- execute_commands: loop
\* the loop body ended: next command, or the exception reaches the outer except
AfterIteration(r, e) ==
    /\ responses' = r.responses
    /\ IF r.raised
       THEN /\ RaiseInExecute(e)
            /\ failure' = "command"
            /\ UNCHANGED i
       ELSE /\ i' = i + 1
            /\ pc' = "loop"
            /\ UNCHANGED <<failure, ecResult, pddResult, epResult>>

HuaweiSendCommand ==
    /\ pc = "loop" /\ family = "huawei"
    /\ i <= Len(commands)
    /\ \E io \in SendOutcomes :
         /\ events' = Append(events, [op |-> "send_command", index |-> i,
                                      command |-> commands[i], on |-> session])
         /\ io_log' = Append(io_log, io)
         /\ AfterIteration(huawei_iteration(responses, commands[i], io),
                           IF io.ok THEN KeyError("none") ELSE io.error)
    /\ UNCHANGED <<inputs, peer, files, device_info, commands, family, profile, session,
                   output, parse_log, cause, connResult>>

GenericExecute ==
    /\ pc = "loop" /\ family = "generic"
    /\ i <= Len(commands)
    /\ \E io \in SendOutcomes :
         /\ events' = Append(events, [op |-> "execute", index |-> i,
                                      command |-> commands[i], on |-> session])
         /\ io_log' = Append(io_log, io)
         /\ IF io.ok
            THEN /\ output' = io.output
                 /\ pc' = "parse"
                 /\ UNCHANGED <<i, responses, failure, ecResult, pddResult, epResult>>
            ELSE /\ AfterIteration(generic_execute_failed(responses, commands[i], io),
                                   io.error)
                 /\ UNCHANGED output
    /\ UNCHANGED <<inputs, peer, files, device_info, commands, family, profile, session,
                   parse_log, cause, connResult>>

\* device.parse(command) runs the command on the device again and parses
\* what comes back
GenericParse ==
    /\ pc = "parse"
    /\ \E pio \in ParseOutcomes :
         /\ events' = Append(events, [op |-> "parse", index |-> i,
                                      command |-> commands[i], on |-> session])
         /\ parse_log' = Append(parse_log, [index |-> i, pio |-> pio])
         /\ AfterIteration(generic_after_parse(responses, commands[i], output, pio),
                           IF pio.ok THEN KeyError("none") ELSE pio.error)
    /\ output' = ""
    /\ UNCHANGED <<inputs, peer, files, device_info, commands, family, profile, session,
                   io_log, cause, connResult>>

\* ------------------------------------- execute_commands: disconnect, return
DisconnectError == [type |-> "ConnectionError", text |-> <<"disconnect failed">>]

Disconnect ==
    /\ events' = Append(events, [op |-> "disconnect", on |-> session])
    /\ \/ /\ session' = "closed"
          /\ ReturnReport(make_report(device_info, responses))
          /\ UNCHANGED failure
       \/ /\ session' \in {"open", "closed"}
          /\ RaiseInExecute(DisconnectError)
          /\ failure' = "disconnect"
    /\ UNCHANGED <<inputs, peer, files, device_info, commands, family, profile, i, output,
                   responses, io_log, parse_log, cause, connResult>>

\* variant: the disconnect call sits inside the loop body
HuaweiDisconnect_in_loop ==
    /\ pc = "loop" /\ family = "huawei"
    /\ Disconnect

HuaweiDisconnect ==
    /\ pc = "loop" /\ family = "huawei"
    /\ i > Len(commands)
    /\ Disconnect

GenericDisconnect ==
    /\ pc = "loop" /\ family = "generic"
    /\ i > Len(commands)
    /\ Disconnect

Next ==
    \/ execute_cisco_commands
    \/ execute_huawei_commands
    \/ execute_juniper_commands
    \/ ClassifyKeyError
    \/ ConnectHuawei
    \/ ConnectGeneric
    \/ HuaweiSendCommand
    \/ GenericExecute
    \/ GenericParse
    \/ HuaweiDisconnect
    \/ GenericDisconnect

Spec == Init /\ [][Next]_vars

\* ------------------------------------------- a second, concurrent request
\* The module-level DeviceManager serves every request; a second request runs
\* execute_commands on its own locals.  Its steps may follow those of the
\* first request or interleave with them (several server workers).
PeerIPs == {"10.0.0.1", "10.0.0.2"}
PeerInfos ==
    { [BaseInfo(os) EXCEPT !.ip_address = ip] :
          os \in {S_vrp, <<"i","o","s">>}, ip \in PeerIPs }
PeerCommands == <<"show version">>

\* the second request arrives with descriptor d, about to call execute_commands
PeerArrives(d) == [PeerAbsent EXCEPT !.pc = "execute", !.device_info = d]

\* the second request's execute_commands ends by raising e / returning r
PeerRaises(e) ==
    [peer EXCEPT !.pc = "done", !.result = Raised(execute_commands_except(e))]
PeerReturns(r) == [peer EXCEPT !.pc = "done", !.result = Returned(r)]

\* the second request: family test and connect
PeerConnect ==
    /\ peer.pc = "execute"
    /\ LET d == peer.device_info
           fam == IF is_huawei(d) THEN "huawei" ELSE "generic"
       IN  /\ files' = IF fam = "huawei"
                       THEN files \cup {[path |-> netmiko_params(d).session_log,
                                         by |-> "peer"]}
                       ELSE files
           /\ \/ /\ CanAnswer(d)
                 /\ peer' = [peer EXCEPT !.pc = "loop", !.family = fam,
                                         !.session = "open", !.i = 1]
              \/ \E c \in Causes, t \in LibTexts :
                   LET r == IF fam = "huawei"
                            THEN connect_huawei_except(d, LibExc(fam, c, t))
                            ELSE connect_to_device_except(d, LibExc(fam, c, t))
                   IN  peer' = [PeerRaises(r.exc) EXCEPT !.family = fam]
    /\ UNCHANGED request

\* the second request: one iteration of its command loop
PeerCommand ==
    /\ peer.pc = "loop"
    /\ peer.i <= Len(PeerCommands)
    /\ \E io \in SendOutcomes, pio \in ParseOutcomes :
         LET c == PeerCommands[peer.i]
             r == IF peer.family = "huawei"
                  THEN huawei_iteration(peer.responses, c, io)
                  ELSE IF io.ok
                  THEN generic_after_parse(peer.responses, c, io.output, pio)
                  ELSE generic_execute_failed(peer.responses, c, io)
         IN  peer' = IF r.raised
                     THEN [PeerRaises(IF io.ok THEN pio.error ELSE io.error)
                              EXCEPT !.responses = r.responses]
                     ELSE [peer EXCEPT !.responses = r.responses, !.i = @ + 1]
    /\ UNCHANGED <<request, files>>

\* the second request: disconnect and return
PeerDisconnect ==
    /\ peer.pc = "loop"
    /\ peer.i > Len(PeerCommands)
    /\ \/ peer' = [PeerReturns(make_report(peer.device_info, peer.responses))
                      EXCEPT !.session = "closed"]
       \/ peer' = PeerRaises(DisconnectError)
    /\ UNCHANGED <<request, files>>

\* the requests the first one is drawn from when a second one is in flight
PairedDatas ==
    { [device_info |-> d,
       inspection_commands |-> <<[command |-> "show version"]>>] :
          d \in { BaseInfo(S_vrp), BaseInfo(<<"i","o","s">>), BaseInfo(S_junos),
                  DictDel(BaseInfo(S_vrp), "os_type") } }

InitTwo ==
    /\ entry \in EntryPoints
    /\ device_data \in PairedDatas
    /\ pc = "entry"
    /\ device_info = << >>
    /\ commands = << >>
    /\ family = "none"
    /\ profile = << >>
    /\ session = "none"
    /\ i = 0
    /\ output = ""
    /\ responses = << >>
    /\ events = << >>
    /\ io_log = << >>
    /\ parse_log = << >>
    /\ cause = "none"
    /\ failure = "none"
    /\ connResult = NoResult
    /\ ecResult = NoResult
    /\ pddResult = NoResult
    /\ epResult = NoResult
    /\ peer \in { PeerArrives(d) : d \in PeerInfos }
    /\ files = {}

NextTwo ==
    \/ Next
    \/ PeerConnect
    \/ PeerCommand
    \/ PeerDisconnect

SpecTwo == InitTwo /\ [][NextTwo]_vars

\* ================================================================== claims
\* the command texts of the request, in request order
InputTexts ==
    IF "inspection_commands" \in DOMAIN device_data
    THEN [k \in 1..Len(device_data.inspection_commands) |->
             device_data.inspection_commands[k]["command"]]
    ELSE << >>
N == Len(InputTexts)

Connected == connResult.kind = "returned"

\* the backend calls of the given kinds, in the order they were made
CallsOf(ops) == SelectSeq(events, LAMBDA e : e.op \in ops)
LoopSends == CallsOf({"send_command", "execute"})
ConnectCalls == Len(CallsOf({"connect_huawei_device", "connect_to_device"}))
DisconnectCalls == Len(CallsOf({"disconnect"}))

\* r is a report with one entry per command of the request, in request order
ReportInOrder(r) ==
    /\ r.kind = "returned"
    /\ Len(r.value.command_responses) = N
    /\ \A k \in 1..N : r.value.command_responses[k].command = InputTexts[k]

EntryAgrees(r, c, io) ==
    IF io.ok
    THEN /\ r.command = c
         /\ r.status = "success"
         /\ r.output = io.output
         /\ "error" \notin DOMAIN r
    ELSE r = [command |-> c, status |-> "error", error |-> io.error.text]

\* C2: a failing send of command k is recorded as an error entry at position
\* k only; every entry is determined by its own command and the device's
\* answer to it, whatever happened to the other commands; after a failure
\* the loop goes on, so that all N commands are sent, each once by the loop,
\* in order, on the open session.
C2_FailureIsolated ==
    Connected =>
        /\ Len(io_log) = Len(LoopSends)
        /\ \A k \in 1..Len(responses) :
               EntryAgrees(responses[k], InputTexts[k], io_log[k])
        /\ \A k \in 1..Len(LoopSends) :
               /\ LoopSends[k].command = InputTexts[k]
               /\ LoopSends[k].on = "open"
        /\ (pc = "loop" => Len(io_log) = i - 1)
        /\ (pc = "done" => Len(io_log) = N /\ Len(responses) = N)

C2_Witness ==
    /\ pc = "done"
    /\ family = "generic"
    /\ Connected
    /\ N = 2
    /\ Len(io_log) = 2
    /\ ~ io_log[1].ok
    /\ io_log[2].ok
    /\ responses[1].status = "error"
    /\ responses[2].status = "success"
    /\ Len(LoopSends) = 2

\* C3: disconnect is called exactly once for a session connect opened, at
\* the end of execute_commands and on the open session, whatever the
\* commands did; it is never called when connect opened no session.
C3_DisconnectOnce ==
    /\ DisconnectCalls <= 1
    /\ (~ Connected => DisconnectCalls = 0)
    /\ (pc # "done" => DisconnectCalls = 0)
    /\ (Connected /\ pc = "done" => DisconnectCalls = 1)
    /\ \A k \in 1..Len(events) :
           events[k].op = "disconnect" => events[k].on = "open" /\ k = Len(events)

C3_Witness ==
    /\ pc = "done"
    /\ Connected
    /\ family = "generic"
    /\ \E k \in 1..Len(io_log) : ~ io_log[k].ok
    /\ DisconnectCalls = 1

\* the connect attempt of the request failed
ConnectFailed == cause # "none"

HasPlatform ==
    /\ "device_info" \in DOMAIN device_data
    /\ "os_type" \in DOMAIN device_data.device_info
ReqPlatform == device_data.device_info.os_type

\* membership of a platform identifier in a vendor family
HuaweiFamilyId(os) ==
    \E key \in {S_huawei, S_vrp, S_vrpv8} : StrIn(key, lower(os))
JuniperFamilyId(os) == StrIn(S_junos, lower(os))

FamilyMismatch ==
    /\ HasPlatform
    /\ \/ entry = "huawei" /\ ~ HuaweiFamilyId(ReqPlatform)
       \/ entry = "juniper" /\ ~ JuniperFamilyId(ReqPlatform)

\* C5: a request whose platform identifier is outside the family of the
\* vendor entry point it was sent to ends in a failure at the entry point,
\* and no backend call at all (no connect on either backend) is made for it.
C5_FamilyMismatchRejected ==
    FamilyMismatch =>
        /\ pc \in {"entry", "done"}
        /\ events = << >>
        /\ ConnectCalls = 0
        /\ family = "none"
        /\ (pc = "done" => epResult.kind = "raised" /\ failure = "validation")

C5_Witness ==
    /\ FamilyMismatch
    /\ entry = "huawei"
    /\ ReqPlatform = <<"i","o","s">>
    /\ pc = "done"
    /\ epResult.kind = "raised"
    /\ ConnectCalls = 0

\* the kind of connection failure an exception of a connect function reports
ReportedKind(exc) ==
    IF exc.detail[1] = "Connection timed out to device " THEN "Timeout"
    ELSE IF exc.detail[1] = "Authentication failed for device "
    THEN "AuthenticationFailure"
    ELSE "TransportFailure"

ExpectedKind(c) ==
    CASE c = "timeout" -> "Timeout"
      [] c = "auth"    -> "AuthenticationFailure"
      [] OTHER         -> "TransportFailure"

\* C6: on either backend a failed connect reports the kind that matches its
\* cause: Timeout for a timeout, AuthenticationFailure for rejected
\* credentials, TransportFailure for anything else.
C6_CauseReported ==
    ConnectFailed =>
        /\ connResult.kind = "raised"
        /\ ReportedKind(connResult.exc) = ExpectedKind(cause)

\* the status class a level of the call chain ended with, if it failed
FailedWith(r, code) == r.kind = "raised" => r.exc.status_code = code

\* C7: a validation failure (malformed request, family mismatch) ends in the
\* bad-input class (400) and a connection failure in the execution-failure
\* class (500), at process_device_data and at the entry point.
C7_FailureClassMatches ==
    /\ failure \in {"validation", "malformed"} =>
           FailedWith(pddResult, 400) /\ FailedWith(epResult, 400)
    /\ failure = "connection" =>
           FailedWith(pddResult, 500) /\ FailedWith(epResult, 500)

\* the descriptor invariant of the data model
ValidDescriptor(d) ==
    /\ d.ip_address # ""
    /\ d.username # ""
    /\ d.password # ""
    /\ d.os_type # << >>
    /\ dict_get(d, "port", 22) \in 1..65535

\* C8: a request whose descriptor breaks the descriptor invariant is
\* rejected as a validation failure and no connect call is made for it.
C8_InvalidDescriptorRejected ==
    (HasPlatform /\ ~ ValidDescriptor(device_data.device_info)) =>
        /\ ConnectCalls = 0
        /\ (pc = "done" => epResult.kind = "raised" /\ failure = "validation")

\* C9: on the Generic backend a command whose raw output was captured and
\* whose parse failed is a success entry with that raw output and no parsed
\* output (a parse that worked adds the parsed output), and the loop goes on
\* with the next command; on the Huawei backend parse is never called and no
\* entry carries a parsed output.
C9_ParseFailureKeepsRaw ==
    /\ \A j \in 1..Len(parse_log) :
         LET k == parse_log[j].index
             pio == parse_log[j].pio
         IN  /\ k <= Len(responses)
             /\ io_log[k].ok
             /\ responses[k] =
                  IF pio.ok
                  THEN [command |-> InputTexts[k], status |-> "success",
                        output |-> io_log[k].output, parsed_output |-> pio.parsed]
                  ELSE [command |-> InputTexts[k], status |-> "success",
                        output |-> io_log[k].output]
             /\ (j = Len(parse_log) /\ pc = "loop") => i > k
    /\ \A k \in 1..Len(responses) :
         "parsed_output" \in DOMAIN responses[k] =>
             \E j \in 1..Len(parse_log) :
                 parse_log[j].index = k /\ parse_log[j].pio.ok
    /\ (Connected /\ pc = "done") => Len(LoopSends) = N
    /\ family = "huawei" =>
         /\ parse_log = << >>
         /\ CallsOf({"parse"}) = << >>
         /\ \A k \in 1..Len(responses) : "parsed_output" \notin DOMAIN responses[k]

C9_Witness ==
    /\ pc = "done"
    /\ family = "generic"
    /\ epResult.kind = "returned"
    /\ N = 2
    /\ Len(parse_log) = 2
    /\ ~ parse_log[1].pio.ok
    /\ parse_log[2].pio.ok
    /\ responses[1].status = "success"
    /\ "parsed_output" \notin DOMAIN responses[1]
    /\ "parsed_output" \in DOMAIN responses[2]

\* the identifiers of Platforms that contain huawei, vrp or vrpv8 in any case
HuaweiPlatforms ==
    { S_huawei, <<"H","u","a","w","e","i">>, S_vrp, <<"V","R","P">>, S_vrpv8,
      <<"V","R","P","V","8">>,
      <<"h","u","a","w","e","i","_","v","r","p","v","8">>,
      <<"c","e","-","v","r","p">> }

\* C10: execute_commands dispatches to connect_huawei_device exactly when
\* the lower-cased platform identifier contains huawei, vrp or vrpv8, and to
\* connect_to_device otherwise; the family depends on the lower-cased
\* identifier only, so identifiers differing in letter case share a family.
C10_FamilyClassification ==
    family # "none" =>
        LET os == device_info.os_type
        IN  /\ family \in {"huawei", "generic"}
            /\ (family = "huawei") <=> HuaweiFamilyId(os)
            /\ (family = "huawei") <=> (os \in HuaweiPlatforms)
            /\ events[1].op = IF family = "huawei"
                              THEN "connect_huawei_device"
                              ELSE "connect_to_device"
            /\ ConnectCalls = 1
            /\ \A p \in Platforms :
                   lower(p) = lower(os) => (HuaweiFamilyId(p) <=> family = "huawei")

C10_Witness ==
    /\ family = "huawei"
    /\ device_info.os_type = <<"V","R","P","V","8">>
    /\ events[1].op = "connect_huawei_device"
    /\ Connected

\* the connection profile built for the request: its port, and whether it
\* holds an enable credential
ProfilePort ==
    IF family = "huawei" THEN profile.port ELSE profile.testbed.cli.port
ProfileHasEnable ==
    IF family = "huawei"
    THEN "secret" \in DOMAIN profile
    ELSE "enable" \in DOMAIN profile.testbed.credentials
SecretSupplied == "secret" \in DOMAIN device_info /\ device_info.secret # ""

\* C11: the connection profile of either family has port 22 when the
\* descriptor gives no port, holds the enable credential when the descriptor
\* supplies a non-empty secret, and holds no enable credential field when
\* the secret is omitted or empty.
C11_ProfileDefaults ==
    family # "none" =>
        /\ ("port" \notin DOMAIN device_info => ProfilePort = 22)
        /\ ("port" \in DOMAIN device_info => ProfilePort = device_info.port)
        /\ (SecretSupplied => ProfileHasEnable)
        /\ (~ SecretSupplied => ~ ProfileHasEnable)

\* C15: a Generic-family session is opened with transcript echo off (no
\* caller of connect_to_device can ask for verbose diagnostics).
C15_EchoOffByDefault ==
    family = "generic" => profile.log_stdout = FALSE

\* the shapes of an entry of command_responses
SuccessShape(r) ==
    /\ DOMAIN r \in { {"command", "status", "output"},
                      {"command", "status", "output", "parsed_output"} }
    /\ r.status = "success"
ErrorShape(r) ==
    /\ DOMAIN r = {"command", "status", "error"}
    /\ r.status = "error"
EntriesWellShaped(rs) ==
    \A k \in 1..Len(rs) :
        /\ SuccessShape(rs[k]) \/ ErrorShape(rs[k])
        /\ ~ (SuccessShape(rs[k]) /\ ErrorShape(rs[k]))
        /\ rs[k].command \in Cmds
        /\ "parsed_output" \in DOMAIN rs[k] => family = "generic"

\* C16: at every point of the loop and in the report returned, every entry
\* of command_responses is either a success entry (command, status
\* "success", output, optionally parsed_output, no error) or an error entry
\* (command, status "error", error, no output); parsed_output appears only
\* on success entries of the Generic backend.
C16_EntryShapes ==
    /\ EntriesWellShaped(responses)
    /\ \A r \in {ecResult, pddResult, epResult} :
         r.kind = "returned" => EntriesWellShaped(r.value.command_responses)

C16_Witness ==
    /\ pc = "done"
    /\ family = "generic"
    /\ epResult.kind = "returned"
    /\ Len(responses) = 2
    /\ ErrorShape(responses[1])
    /\ SuccessShape(responses[2])
    /\ "parsed_output" \in DOMAIN responses[2]

\* C17: for a Huawei-family descriptor connect_huawei_device hands Netmiko
\* the driver huawei_vrpv8 exactly when the lower-cased platform identifier
\* contains vrpv8 and the driver huawei otherwise, a timeout of 30 seconds
\* and a session log named after the device's IP address.
C17_HuaweiDriver ==
    family = "huawei" =>
        /\ (profile.device_type = "huawei_vrpv8")
               <=> StrIn(S_vrpv8, lower(device_info.os_type))
        /\ profile.device_type \in {"huawei", "huawei_vrpv8"}
        /\ profile.timeout = 30
        /\ profile.session_log = <<"/tmp/", device_info.ip_address, "-netmiko.log">>
        /\ profile.host = device_info.ip_address

C17_Witness ==
    /\ family = "huawei"
    /\ device_info.os_type = <<"h","u","a","w","e","i","_","v","r","p","v","8">>
    /\ profile.device_type = "huawei_vrpv8"
    /\ Connected

ConnectOps == {"connect_huawei_device", "connect_to_device"}
IssueOps == {"send_command", "execute", "parse"}

\* C12: within a request the backend calls are strictly ordered on one
\* session: the connect call is the first and only connect; every command is
\* issued after it, on the open session; the loop sends command k+1 only
\* when the entry of command k is in the list; disconnect is the last call,
\* made after all N commands were attempted; a report is returned only
\* after disconnect.
C12_StrictOrder ==
    /\ \A j \in 1..Len(events) :
         /\ (events[j].op \in ConnectOps) <=> (j = 1)
         /\ events[j].op \in IssueOps =>
                /\ Connected
                /\ events[j].on = "open"
         /\ events[j].op = "disconnect" =>
                /\ j = Len(events)
                /\ events[j].on = "open"
                /\ Len(LoopSends) = N
                /\ Len(responses) = N
    /\ \A k \in 1..Len(LoopSends) : LoopSends[k].index = k
    /\ Len(LoopSends) \in {Len(responses), Len(responses) + 1}
    /\ (Len(LoopSends) = Len(responses) + 1) => pc = "parse"
    /\ \A r \in {ecResult, pddResult, epResult} :
         r.kind = "returned" =>
             /\ events[Len(events)].op = "disconnect"
             /\ session = "closed"

C12_Witness ==
    /\ pc = "done"
    /\ family = "huawei"
    /\ epResult.kind = "returned"
    /\ N = 2
    /\ Len(events) = 4
    /\ events[2].op = "send_command" /\ events[2].index = 1
    /\ events[3].op = "send_command" /\ events[3].index = 2
    /\ events[4].op = "disconnect"

\* how many times the command at loop position k was issued to the device
TimesIssued(k) ==
    Cardinality({ j \in 1..Len(events) :
                    events[j].op \in IssueOps /\ events[j].index = k })

\* C14: during a request every command of the batch is issued to the device
\* exactly once, on either backend, the parsing step included.
C14_IssuedOnce ==
    Connected =>
        /\ \A k \in 1..N : TimesIssued(k) <= 1
        /\ (pc = "done" => \A k \in 1..N : TimesIssued(k) = 1)

\* C18: once connect has succeeded execute_commands ends by returning a
\* report with N results, never with a failure, whatever the commands, the
\* parse attempts and the disconnect call did.
C18_AlwaysReturnsReport ==
    (Connected /\ pc = "done") =>
        /\ ecResult.kind = "returned"
        /\ Len(ecResult.value.command_responses) = N

\* C19: a request that passed the platform check of the Huawei entry point
\* is served by connect_huawei_device, and one that passed the check of the
\* Juniper entry point by connect_to_device.
C19_BackendMatchesEntry ==
    family # "none" =>
        /\ entry = "huawei" =>
               family = "huawei" /\ events[1].op = "connect_huawei_device"
        /\ entry = "juniper" =>
               family = "generic" /\ events[1].op = "connect_to_device"

C19_Witness ==
    /\ entry = "huawei"
    /\ family = "huawei"
    /\ device_info.os_type = <<"V","R","P">>
    /\ events[1].op = "connect_huawei_device"

\* C20: the Huawei entry point accepts exactly the platform identifiers that
\* execute_commands classifies as Huawei: every identifier whose lower-cased
\* form contains huawei, vrp or vrpv8 passes its check, and every identifier
\* that passes is classified as Huawei.
C20_EntryAcceptsHuaweiFamily ==
    (entry = "huawei" /\ HasPlatform /\ pc # "entry") =>
        /\ HuaweiFamilyId(ReqPlatform) => failure # "validation"
        /\ family # "none" => family = "huawei"

\* the session-log files, each with the requests that opened it for writing
Writers(path) == { f.by : f \in { g \in files : g.path = path } }

\* C13: two requests running concurrently through the shared DeviceManager
\* (two requests to the same device IP included) share no mutable resource:
\* no file is written by both of them.
C13_NoSharedResource ==
    \A f \in files : Writers(f.path) = {f.by}
====
